---- MODULE Spec2Model ----
(***************************************************************************)
(* Model of src/src/utils/latexConverter.ts: accent normalisation, the     *)
(* '$'/'$$' segmenter, the placeholder weaver, the clipboard adapter and   *)
(* the document builder.                                                   *)
(*                                                                         *)
(* A JavaScript string is a sequence of one-element strings, one per       *)
(* UTF-16 code unit.  A code unit outside ASCII is written "U+xxxx".       *)
(* Markup emitted by the code or by a library (an HTML or OMML tag) is one *)
(* element of the sequence, written with its angle brackets, so that it    *)
(* can never be confused with the characters of the user's text.           *)
(***************************************************************************)
EXTENDS Integers, Sequences, FiniteSets, TLC

VARIABLES
    input,        \* the text handed to the converter
    pc,           \* how far the run has got
    normOnce,     \* normalizeAccentsToUnicode(input)
    normTwice,    \* normalizeAccentsToUnicode(normOnce)
    tokens,       \* the result of tokenizeAndConvert
    previewHtml,  \* the result of buildPreviewHtmlFromTokens
    wordHtml,     \* the result of buildWordHtmlFromTokens
    paragraphs,   \* the paragraphs generateDocx hands to the Document
    clipEnv,      \* what the browser offers to copyWordHtmlToClipboard
    clip          \* the progress and the result of copyWordHtmlToClipboard

vars == <<input, pc, normOnce, normTwice, tokens, previewHtml, wordHtml, paragraphs,
          clipEnv, clip>>

(***************************************************************************)
(* Bounds of the model.                                                    *)
(***************************************************************************)
MaxSegFrags == 6
MaxNormFrags == 5
MaxWeaveFrags == 4
MaxDocxFrags == 4
MaxListLines == 3

(***************************************************************************)
(* Strings.                                                                *)
(***************************************************************************)
RECURSIVE Flatten(_)
Flatten(ss) == IF ss = <<>> THEN <<>> ELSE Head(ss) \o Flatten(Tail(ss))

SeqsUpTo(S, n) == UNION {[1..k -> S] : k \in 0..n}

StartsWith(text, pat, p) ==
    /\ p >= 1
    /\ p + Len(pat) - 1 <= Len(text)
    /\ SubSeq(text, p, p + Len(pat) - 1) = pat

Occurs(text, pat) == \E p \in 1..Len(text) : StartsWith(text, pat, p)

AsciiLetters ==
    {"A","B","C","D","E","F","G","H","I","J","K","L","M","N","O","P","Q","R",
     "S","T","U","V","W","X","Y","Z","a","b","c","d","e","f","g","h","i","j",
     "k","l","m","n","o","p","q","r","s","t","u","v","w","x","y","z"}

WhiteSpace == {" ", "\n", "\t"}

(***************************************************************************)
(* LATEX_ACCENT_MAP, in the order of Object.entries.                       *)
(***************************************************************************)
HatTable ==
    ("A" :> <<"U+00C2">>) @@ ("a" :> <<"U+00E2">>) @@ ("E" :> <<"U+00CA">>) @@
    ("e" :> <<"U+00EA">>) @@ ("I" :> <<"U+00CE">>) @@ ("i" :> <<"U+00EE">>) @@
    ("O" :> <<"U+00D4">>) @@ ("o" :> <<"U+00F4">>) @@ ("U" :> <<"U+00DB">>) @@
    ("u" :> <<"U+00FB">>) @@ ("Y" :> <<"U+0176">>) @@ ("y" :> <<"U+0177">>) @@
    ("W" :> <<"U+0174">>) @@ ("w" :> <<"U+0175">>) @@ ("Z" :> <<"U+1E90">>) @@
    ("z" :> <<"U+1E91">>) @@ ("C" :> <<"U+0108">>) @@ ("c" :> <<"U+0109">>) @@
    ("G" :> <<"U+011C">>) @@ ("g" :> <<"U+011D">>) @@ ("H" :> <<"U+0124">>) @@
    ("h" :> <<"U+0125">>) @@ ("S" :> <<"U+015C">>) @@ ("s" :> <<"U+015D">>)

BarTable ==
    ("A" :> <<"U+0100">>) @@ ("a" :> <<"U+0101">>) @@ ("E" :> <<"U+0112">>) @@
    ("e" :> <<"U+0113">>) @@ ("I" :> <<"U+012A">>) @@ ("i" :> <<"U+012B">>) @@
    ("O" :> <<"U+014C">>) @@ ("o" :> <<"U+014D">>) @@ ("U" :> <<"U+016A">>) @@
    ("u" :> <<"U+016B">>) @@ ("Y" :> <<"U+0232">>) @@ ("y" :> <<"U+0233">>) @@
    ("x" :> <<"x", "U+0304">>) @@ ("X" :> <<"X", "U+0304">>)

TildeTable ==
    ("A" :> <<"U+00C3">>) @@ ("a" :> <<"U+00E3">>) @@ ("N" :> <<"U+00D1">>) @@
    ("n" :> <<"U+00F1">>) @@ ("O" :> <<"U+00D5">>) @@ ("o" :> <<"U+00F5">>) @@
    ("I" :> <<"U+0128">>) @@ ("i" :> <<"U+0129">>) @@ ("U" :> <<"U+0168">>) @@
    ("u" :> <<"U+0169">>) @@ ("Y" :> <<"U+1EF8">>) @@ ("y" :> <<"U+1EF9">>) @@
    ("v" :> <<"U+1E7D">>) @@ ("V" :> <<"U+1E7C">>)

DotTable ==
    ("x" :> <<"U+1E8B">>) @@ ("X" :> <<"U+1E8A">>) @@ ("y" :> <<"U+1E8F">>) @@
    ("Y" :> <<"U+1E8E">>) @@ ("z" :> <<"U+017C">>) @@ ("Z" :> <<"U+017B">>)

LATEX_ACCENT_MAP ==
    << [macroName |-> <<"h","a","t">>,         table |-> HatTable],
       [macroName |-> <<"b","a","r">>,         table |-> BarTable],
       [macroName |-> <<"t","i","l","d","e">>, table |-> TildeTable],
       [macroName |-> <<"d","o","t">>,         table |-> DotTable] >>

(***************************************************************************)
(* The pattern \\<macroName>\s*\{([A-Za-z])\} tried at position p: the     *)
(* position of the closing brace of the match, or 0 when it does not match *)
(* there.  \s* is greedy, and no white space is a brace, so the pattern    *)
(* matches in at most one way.                                             *)
(***************************************************************************)
RECURSIVE SkipWhiteSpace(_, _)
SkipWhiteSpace(text, p) ==
    IF p <= Len(text) /\ text[p] \in WhiteSpace
    THEN SkipWhiteSpace(text, p + 1)
    ELSE p

AccentMatchEnd(text, p, macroName) ==
    LET q == SkipWhiteSpace(text, p + 1 + Len(macroName))
    IN  IF /\ text[p] = "\\"
           /\ StartsWith(text, macroName, p + 1)
           /\ q + 2 <= Len(text)
           /\ text[q] = "{"
           /\ text[q + 1] \in AsciiLetters
           /\ text[q + 2] = "}"
        THEN q + 2
        ELSE 0

(***************************************************************************)
(* The replacement callback: table[letter] ?? match.                       *)
(***************************************************************************)
AccentReplacement_DropMacro(table, letter, match) ==
    IF letter \in DOMAIN table THEN table[letter] ELSE <<letter>>

AccentReplacement(table, letter, match) ==
    IF letter \in DOMAIN table THEN table[letter] ELSE match

(***************************************************************************)
(* output.replace(pattern, callback) with the g flag: matches are taken    *)
(* left to right, without overlap, and the scan resumes after each match.  *)
(***************************************************************************)
RECURSIVE ReplaceAccents(_, _, _)
ReplaceAccents(text, p, entry) ==
    IF p > Len(text) THEN <<>>
    ELSE LET e == AccentMatchEnd(text, p, entry.macroName)
         IN  IF e = 0
             THEN <<text[p]>> \o ReplaceAccents(text, p + 1, entry)
             ELSE AccentReplacement(entry.table, text[e - 1], SubSeq(text, p, e))
                  \o ReplaceAccents(text, e + 1, entry)

RECURSIVE NormalizeFrom(_, _)
NormalizeFrom(output, k) ==
    IF k > Len(LATEX_ACCENT_MAP) THEN output
    ELSE NormalizeFrom(ReplaceAccents(output, 1, LATEX_ACCENT_MAP[k]), k + 1)

normalizeAccentsToUnicode(text) == NormalizeFrom(text, 1)

(***************************************************************************)
(* regex = /\$\$([\s\S]+?)\$\$|\$([^\n$]+?)\$/g tried at position p.       *)
(* Both contents are lazy, so the block content ends at the first '$$' at  *)
(* least one character after the opening '$$', and the inline content ends *)
(* at the first '$' after at least one character that is neither a newline *)
(* nor a '$'.  The block alternative is tried first.  A group that did not *)
(* take part in the match (undefined in JavaScript) is the empty sequence: *)
(* a group that took part is never empty.                                  *)
(***************************************************************************)
IsDollar(text, p) == p >= 1 /\ p <= Len(text) /\ text[p] = "$"

BlockCloses(text, p) ==
    {q \in (p + 3)..(Len(text) - 1) : IsDollar(text, q) /\ IsDollar(text, q + 1)}

InlineCloses(text, p) ==
    {q \in (p + 2)..Len(text) :
        /\ IsDollar(text, q)
        /\ \A k \in (p + 1)..(q - 1) : text[k] \notin {"\n", "$"}}

Min(S) == CHOOSE x \in S : \A y \in S : x <= y

NoMatch == [found |-> FALSE]

RegexMatchAt(text, p) ==
    IF IsDollar(text, p) /\ IsDollar(text, p + 1) /\ BlockCloses(text, p) # {}
    THEN LET q == Min(BlockCloses(text, p))
         IN  [found |-> TRUE, index |-> p, m1 |-> SubSeq(text, p + 2, q - 1),
              m2 |-> <<>>, lastIndex |-> q + 2]
    ELSE IF IsDollar(text, p) /\ InlineCloses(text, p) # {}
    THEN LET q == Min(InlineCloses(text, p))
         IN  [found |-> TRUE, index |-> p, m1 |-> <<>>,
              m2 |-> SubSeq(text, p + 1, q - 1), lastIndex |-> q + 1]
    ELSE NoMatch

(***************************************************************************)
(* regex.exec(text) from lastIndex (positions are 1-based here): the       *)
(* leftmost position at which the pattern matches.                         *)
(***************************************************************************)
RECURSIVE RegexExec(_, _)
RegexExec(text, from) ==
    IF from > Len(text) THEN NoMatch
    ELSE LET m == RegexMatchAt(text, from)
         IN  IF m.found THEN m ELSE RegexExec(text, from + 1)

(***************************************************************************)
(* Decimal digits of the token counter, as `t-${i}` prints them.           *)
(***************************************************************************)
Digit(d) == <<"0","1","2","3","4","5","6","7","8","9">>[d + 1]

RECURSIVE Decimal(_)
Decimal(n) == IF n < 10 THEN <<Digit(n)>> ELSE Decimal(n \div 10) \o <<Digit(n % 10)>>

TextId(i) == <<"t", "-">> \o Decimal(i)
MathId(i) == <<"m", "-">> \o Decimal(i)

(***************************************************************************)
(* tokenize.  TokenizeLoop is the while loop over regex.exec: the tokens   *)
(* pushed, and lastIndex and i as the loop leaves them (lastIndex is the   *)
(* 1-based position of the next unconsumed character).  tokenize then      *)
(* pushes the trailing text.                                               *)
(***************************************************************************)
IsBlockMatch_FromSecondGroup(m) == m.m2 # <<>>

IsBlockMatch(m) == m.m1 # <<>>

RECURSIVE TokenizeLoop(_, _, _)
TokenizeLoop(text, lastIndex, i) ==
    LET m == RegexExec(text, lastIndex)
    IN  IF ~m.found
        THEN [tokens |-> <<>>, lastIndex |-> lastIndex, i |-> i]
        ELSE LET before  == IF m.index > lastIndex
                            THEN << [type |-> "text", id |-> TextId(i),
                                     text |-> SubSeq(text, lastIndex, m.index - 1)] >>
                            ELSE <<>>
                 j       == i + Len(before)
                 content == IF m.m1 # <<>> THEN m.m1 ELSE m.m2
                 rest    == TokenizeLoop(text, m.lastIndex, j + 1)
             IN  [rest EXCEPT !.tokens =
                     before
                     \o << [type |-> "latex", id |-> MathId(j), latex |-> content,
                            displayMode |-> IsBlockMatch(m)] >>
                     \o rest.tokens]

tokenize_NoTrailingText(text) == TokenizeLoop(text, 1, 0).tokens

tokenize(text) ==
    LET loop == TokenizeLoop(text, 1, 0)
    IN  IF loop.lastIndex <= Len(text)
        THEN loop.tokens
             \o << [type |-> "text", id |-> TextId(loop.i),
                    text |-> SubSeq(text, loop.lastIndex, Len(text))] >>
        ELSE loop.tokens

(***************************************************************************)
(* convertLatexToken.  The three renderers are libraries; what the model   *)
(* keeps of them is what the code reads back from their output:            *)
(*  - katex.renderToString embeds the TeX source in an <annotation>        *)
(*    element of its output (and, for a formula it cannot parse, in the    *)
(*    error node it renders, throwOnError being false);                    *)
(*  - Temml renders every letter as its own <mi>, any other visible        *)
(*    character as its own <mo>, drops the white space of math mode, and   *)
(*    renders  a^b  as an <msup>;                                          *)
(*  - mml2omml turns <mi>/<mo> into a run <m:r><m:t>..</m:t></m:r> and     *)
(*    <msup> into <m:sSup>.                                                *)
(***************************************************************************)
katexRenderToString(latex, displayMode) ==
    <<"<span class=katex>", "<annotation>">> \o latex
        \o <<"</annotation>", "</span>">>

RECURSIVE TemmlRow(_, _)
TemmlRow(latex, p) ==
    IF p > Len(latex) THEN <<>>
    ELSE IF latex[p] \in WhiteSpace THEN TemmlRow(latex, p + 1)
    ELSE IF /\ p + 2 <= Len(latex)
            /\ latex[p] \in AsciiLetters
            /\ latex[p + 1] = "^"
            /\ latex[p + 2] \in AsciiLetters
    THEN <<"<msup>", "<mi>", latex[p], "</mi>", "<mi>", latex[p + 2], "</mi>", "</msup>">>
         \o TemmlRow(latex, p + 3)
    ELSE IF latex[p] \in AsciiLetters
    THEN <<"<mi>", latex[p], "</mi>">> \o TemmlRow(latex, p + 1)
    ELSE <<"<mo>", latex[p], "</mo>">> \o TemmlRow(latex, p + 1)

TemmlRenderToString(latex, displayMode) ==
    <<(IF displayMode THEN "<math display=block>" ELSE "<math>")>>
        \o TemmlRow(latex, 1) \o <<"</math>">>

OmmlOf(e) ==
    CASE e \in {"<math>", "<math display=block>"} -> <<"<m:oMath>">>
      [] e = "</math>"                             -> <<"</m:oMath>">>
      [] e \in {"<mi>", "<mo>"}                    -> <<"<m:r>", "<m:t>">>
      [] e \in {"</mi>", "</mo>"}                  -> <<"</m:t>", "</m:r>">>
      [] e = "<msup>"                              -> <<"<m:sSup>">>
      [] e = "</msup>"                             -> <<"</m:sSup>">>
      [] OTHER                                     -> <<e>>

RECURSIVE mml2omml(_)
mml2omml(mathml) ==
    IF mathml = <<>> THEN <<>> ELSE OmmlOf(Head(mathml)) \o mml2omml(Tail(mathml))

convertLatexToken(latex, displayMode) ==
    LET mathml == TemmlRenderToString(latex, displayMode)
    IN  [katexHtml |-> katexRenderToString(latex, displayMode),
         mathml    |-> mathml,
         omml      |-> mml2omml(mathml)]

(***************************************************************************)
(* tokenizeAndConvert: normalise, tokenize, then map every raw token.      *)
(***************************************************************************)
ConvertRawToken(t) ==
    IF t.type = "text"
    THEN [type |-> "text", id |-> t.id, text |-> t.text]
    ELSE LET latex == normalizeAccentsToUnicode(t.latex)
             c     == convertLatexToken(latex, t.displayMode)
         IN  [type |-> "math", id |-> t.id, latex |-> latex,
              displayMode |-> t.displayMode, katexHtml |-> c.katexHtml,
              mathml |-> c.mathml, omml |-> c.omml]

tokenizeAndConvert_SkipNormalize(text) ==
    LET raw == tokenize(text)
    IN  [k \in 1..Len(raw) |-> ConvertRawToken(raw[k])]

tokenizeAndConvert(text) ==
    LET normalized == normalizeAccentsToUnicode(text)
        raw        == tokenize(normalized)
    IN  [k \in 1..Len(raw) |-> ConvertRawToken(raw[k])]

(***************************************************************************)
(* marked.  The library is not part of the repository; the model keeps the *)
(* part of CommonMark that the texts of this model exercise:               *)
(*  - blocks: lines that hold only blanks separate paragraphs (the lexer's *)
(*    space tokens); a paragraph is made of the lines between them;        *)
(*  - inlines: a run of one or two '*' that can open (a non-blank follows) *)
(*    and a later run of the same length that can close (a non-blank       *)
(*    precedes) make an em or a strong node around the text between them;  *)
(*    any other '*' is literal text, and adjacent text is one text token.  *)
(* MarkedSupported says which texts this covers: no list, rule, heading,   *)
(* quote, code or table, no paragraph of several lines, at most two runs   *)
(* of '*' on a line, and no punctuation next to a '*'.                     *)
(***************************************************************************)
RECURSIVE SplitLines(_)
SplitLines(src) ==
    IF \A k \in 1..Len(src) : src[k] # "\n" THEN <<src>>
    ELSE LET n == Min({k \in 1..Len(src) : src[k] = "\n"})
         IN  <<SubSeq(src, 1, n - 1)>> \o SplitLines(SubSeq(src, n + 1, Len(src)))

IsBlankLine(line) == \A k \in 1..Len(line) : line[k] \in {" ", "\t"}

(* The maximal runs of '*' of a line, as <<first, last>> positions. *)
RunEnd(line, k) ==
    Min({j \in k..Len(line) : j = Len(line) \/ line[j + 1] # "*"})

StarRuns(line) ==
    {<<k, RunEnd(line, k)>> :
        k \in {j \in 1..Len(line) : line[j] = "*" /\ (j = 1 \/ line[j - 1] # "*")}}

FirstRun(line) == CHOOSE r \in StarRuns(line) : \A o \in StarRuns(line) : r[1] <= o[1]
LastRun(line) == CHOOSE r \in StarRuns(line) : \A o \in StarRuns(line) : r[1] >= o[1]

CanOpen(line, r) == r[2] < Len(line) /\ line[r[2] + 1] \notin WhiteSpace
CanClose(line, r) == r[1] > 1 /\ line[r[1] - 1] \notin WhiteSpace

InlineTextChars ==
    AsciiLetters \cup {"0","1","2","3","4","5","6","7","8","9"," ","-","=","^","$","*"}

LineSupported(line) ==
    LET lead == Min({k \in 1..Len(line) : line[k] # " "} \cup {Len(line) + 1}) - 1
    IN  \/ IsBlankLine(line)
        \/ /\ \A k \in 1..Len(line) : line[k] \in InlineTextChars
           /\ lead <= 3
           /\ line[lead + 1] \in AsciiLetters \cup {"*"}
           /\ line[lead + 1] = "*" =>
                 (lead + 2 <= Len(line) /\ line[lead + 2] \notin WhiteSpace)
           /\ Cardinality(StarRuns(line)) <= 2
           /\ \A r \in StarRuns(line) :
                 /\ r[2] - r[1] <= 1
                 /\ r[2] - r[1] = FirstRun(line)[2] - FirstRun(line)[1]
                 /\ r[1] > 1 => line[r[1] - 1] \in AsciiLetters \cup {" "}
                 /\ r[2] < Len(line) => line[r[2] + 1] \in AsciiLetters \cup {" "}

MarkedSupported(src) ==
    LET lines == SplitLines(src)
    IN  /\ \A k \in 1..Len(lines) : LineSupported(lines[k])
        /\ \A k \in 1..(Len(lines) - 1) :
              IsBlankLine(lines[k]) \/ IsBlankLine(lines[k + 1])

TextNode(text) == IF text = <<>> THEN <<>> ELSE <<[type |-> "text", text |-> text]>>

(* Lexer.lexInline, on one line. *)
lexInline(line) ==
    IF Cardinality(StarRuns(line)) = 2
       /\ CanOpen(line, FirstRun(line)) /\ CanClose(line, LastRun(line))
    THEN LET o == FirstRun(line)
             c == LastRun(line)
         IN  TextNode(SubSeq(line, 1, o[1] - 1))
             \o << [type   |-> IF o[2] > o[1] THEN "strong" ELSE "em",
                    tokens |-> TextNode(SubSeq(line, o[2] + 1, c[1] - 1))] >>
             \o TextNode(SubSeq(line, c[2] + 1, Len(line)))
    ELSE TextNode(line)

(***************************************************************************)
(* marked, lists.  A list line is an indentation, a marker ('-' for a      *)
(* bullet list, '1.' for an ordered one), a blank and the text of the      *)
(* item.  The content of an item starts at indent + width; the lines that  *)
(* follow an item with at least that indentation are its content, lexed    *)
(* again as blocks once that indentation is removed.  Items at the same    *)
(* indentation and of the same kind, one after the other, make one list    *)
(* token; a change of kind starts another list token.                      *)
(* ListSupported says which texts this covers: list lines only, the first  *)
(* one not indented, every other one indented as the content of the line   *)
(* before it or as an item that is still open.                             *)
(***************************************************************************)
LineIndent(line) ==
    Min({k \in 1..Len(line) : line[k] # " "} \cup {Len(line) + 1}) - 1

IsBulletLine(line) ==
    LET i == LineIndent(line)
    IN  i + 3 <= Len(line) /\ line[i + 1] = "-" /\ line[i + 2] = " "

IsOrderedLine(line) ==
    LET i == LineIndent(line)
    IN  i + 4 <= Len(line) /\ line[i + 1] = "1" /\ line[i + 2] = "." /\ line[i + 3] = " "

ListItemChars == AsciiLetters \cup {"0","1","2","3","4","5","6","7","8","9","-"}

IsListLine(line) ==
    /\ IsBulletLine(line) \/ IsOrderedLine(line)
    /\ LET from == LineIndent(line) + (IF IsBulletLine(line) THEN 3 ELSE 4)
       IN  /\ line[from] \in AsciiLetters
           /\ \A k \in from..Len(line) : line[k] \in ListItemChars

ParseListLine(line) ==
    LET w == IF IsBulletLine(line) THEN 2 ELSE 3
    IN  [indent  |-> LineIndent(line),
         ordered |-> IsOrderedLine(line),
         width   |-> w,
         text    |-> SubSeq(line, LineIndent(line) + w + 1, Len(line))]

ListLines(src) ==
    LET lines == SplitLines(src)
    IN  [k \in 1..Len(lines) |-> ParseListLine(lines[k])]

ListSupported(src) ==
    LET lines == SplitLines(src)
        L     == ListLines(src)
        Open(k) == {j \in 1..(k - 1) :
                      \A m \in (j + 1)..(k - 1) : L[m].indent >= L[j].indent + L[j].width}
    IN  /\ \A k \in 1..Len(lines) : IsListLine(lines[k])
        /\ L[1].indent = 0
        /\ \A k \in 2..Len(lines) :
              \/ L[k].indent = L[k - 1].indent + L[k - 1].width
              \/ \E j \in Open(k) : L[k].indent = L[j].indent

(* The last line of the item that starts at line k, and of the list that
   starts there. *)
ItemEnd(L, k) ==
    CHOOSE e \in k..Len(L) :
        /\ \A m \in (k + 1)..e : L[m].indent >= L[k].indent + L[k].width
        /\ e < Len(L) => L[e + 1].indent < L[k].indent + L[k].width

RECURSIVE ListEnd(_, _)
ListEnd(L, k) ==
    LET e == ItemEnd(L, k)
    IN  IF e < Len(L) /\ L[e + 1].indent = L[k].indent /\ L[e + 1].ordered = L[k].ordered
        THEN ListEnd(L, e + 1)
        ELSE e

(* A line of the content of an item, as the item's text holds it. *)
ContentLine(l, offset) ==
    <<"\n">> \o [k \in 1..(l.indent - offset) |-> " "]
        \o (IF l.ordered THEN <<"1", ".", " ">> ELSE <<"-", " ">>) \o l.text

RECURSIVE ListTokens(_)
RECURSIVE ListItems(_)
ListItem(L) ==
    [type   |-> "list_item",
     text   |-> L[1].text
                  \o Flatten([k \in 1..(Len(L) - 1) |->
                                 ContentLine(L[k + 1], L[1].indent + L[1].width)]),
     tokens |-> << [type |-> "text", text |-> L[1].text, tokens |-> lexInline(L[1].text)] >>
                  \o ListTokens(Tail(L))]

ListItems(L) ==
    IF L = <<>> THEN <<>>
    ELSE LET e == ItemEnd(L, 1)
         IN  <<ListItem(SubSeq(L, 1, e))>> \o ListItems(SubSeq(L, e + 1, Len(L)))

ListTokens(L) ==
    IF L = <<>> THEN <<>>
    ELSE LET e == ListEnd(L, 1)
         IN  << [type    |-> "list",
                 ordered |-> L[1].ordered,
                 items   |-> ListItems(SubSeq(L, 1, e))] >>
             \o ListTokens(SubSeq(L, e + 1, Len(L)))

(* marked.lexer: the block tokens. *)
BlockToken(line) ==
    IF IsBlankLine(line) THEN [type |-> "space"]
    ELSE [type |-> "paragraph", text |-> line, tokens |-> lexInline(line)]

markedLexer(src) ==
    LET lines == SplitLines(src)
    IN  IF IsListLine(lines[1]) /\ ListSupported(src)
        THEN ListTokens(ListLines(src))
        ELSE [k \in 1..Len(lines) |-> BlockToken(lines[k])]

(* marked.parse: the renderer over the block tokens. *)
RECURSIVE InlineHtml(_)
InlineHtml(inline) ==
    IF inline = <<>> THEN <<>>
    ELSE LET it == Head(inline)
         IN  (CASE it.type = "text"   -> it.text
                [] it.type = "strong" -> <<"<strong>">> \o InlineHtml(it.tokens) \o <<"</strong>">>
                [] it.type = "em"     -> <<"<em>">> \o InlineHtml(it.tokens) \o <<"</em>">>)
             \o InlineHtml(Tail(inline))

RECURSIVE ListHtml(_)
RECURSIVE ItemsHtml(_)
ItemsHtml(items) ==
    IF items = <<>> THEN <<>>
    ELSE LET li == Head(items)
         IN  <<"<li>">> \o InlineHtml(li.tokens[1].tokens)
                 \o Flatten([k \in 1..(Len(li.tokens) - 1) |-> ListHtml(li.tokens[k + 1])])
                 \o <<"</li>", "\n">> \o ItemsHtml(Tail(items))

ListHtml(tk) ==
    (IF tk.ordered THEN <<"<ol>", "\n">> ELSE <<"<ul>", "\n">>)
        \o ItemsHtml(tk.items)
        \o (IF tk.ordered THEN <<"</ol>", "\n">> ELSE <<"</ul>", "\n">>)

BlockHtml(tk) ==
    IF tk.type = "paragraph"
    THEN <<"<p>">> \o InlineHtml(tk.tokens) \o <<"</p>", "\n">>
    ELSE IF tk.type = "list" THEN ListHtml(tk)
    ELSE <<>>

markedParse(src) ==
    LET blocks == markedLexer(src)
    IN  Flatten([k \in 1..Len(blocks) |-> BlockHtml(blocks[k])])

(***************************************************************************)
(* mathPlaceholder and the combined text of renderMarkdownWithPlaceholders *)
(* and generateDocx (the same expression in both).                         *)
(***************************************************************************)
MATHPH == <<"M", "A", "T", "H", "P", "H">>
PHMATH == <<"P", "H", "M", "A", "T", "H">>

mathPlaceholder(id) == MATHPH \o id \o PHMATH

CombinedPiece_NoBlankLines(t) ==
    IF t.type = "text" THEN t.text ELSE mathPlaceholder(t.id)

CombinedPiece(t) ==
    IF t.type = "text" THEN t.text
    ELSE IF t.displayMode
    THEN <<"\n", "\n">> \o mathPlaceholder(t.id) \o <<"\n", "\n">>
    ELSE mathPlaceholder(t.id)

Combined(toks) == Flatten([k \in 1..Len(toks) |-> CombinedPiece(toks[k])])

(***************************************************************************)
(* out.split(ph).join(repl): every occurrence of ph, found left to right   *)
(* without overlap in the string as it is before the call, gives way to    *)
(* repl; the text of repl is not searched.                                 *)
(***************************************************************************)
RECURSIVE SplitJoin(_, _, _)
SplitJoin(out, ph, repl) ==
    IF out = <<>> THEN <<>>
    ELSE IF StartsWith(out, ph, 1)
    THEN repl \o SplitJoin(SubSeq(out, Len(ph) + 1, Len(out)), ph, repl)
    ELSE <<Head(out)>> \o SplitJoin(Tail(out), ph, repl)

PreviewReplacer(t) ==
    IF t.displayMode
    THEN <<"<div>">> \o t.katexHtml \o <<"</div>">>
    ELSE <<"<span>">> \o t.katexHtml \o <<"</span>">>

WordReplacer(t) ==
    IF t.displayMode THEN <<"<div>">> \o t.omml \o <<"</div>">> ELSE t.omml

Replacement(t, replacer) ==
    IF replacer = "preview" THEN PreviewReplacer(t) ELSE WordReplacer(t)

(* tokens.forEach of renderMarkdownWithPlaceholders, from token k on. *)
RECURSIVE ReplaceLoop(_, _, _, _)
ReplaceLoop(out, toks, k, replacer) ==
    IF k > Len(toks) THEN out
    ELSE IF toks[k].type = "math"
    THEN ReplaceLoop(SplitJoin(out, mathPlaceholder(toks[k].id),
                               Replacement(toks[k], replacer)),
                     toks, k + 1, replacer)
    ELSE ReplaceLoop(out, toks, k + 1, replacer)

renderMarkdownWithPlaceholders(toks, replacer) ==
    ReplaceLoop(markedParse(Combined(toks)), toks, 1, replacer)

buildPreviewHtmlFromTokens(toks) == renderMarkdownWithPlaceholders(toks, "preview")

buildWordHtmlFromTokens(toks) ==
    <<"<!DOCTYPE html>", "<html xmlns:m=ns>", "<head>", "<meta charset=UTF-8>",
      "</head>", "<body>">>
        \o renderMarkdownWithPlaceholders(toks, "word")
        \o <<"</body>", "</html>">>

(***************************************************************************)
(* generateDocx.  mathMap.get(id): the math token with that id, if any.    *)
(***************************************************************************)
MathMapHas(toks, id) == \E k \in 1..Len(toks) : toks[k].type = "math" /\ toks[k].id = id

MathMapGet(toks, id) ==
    toks[CHOOSE k \in 1..Len(toks) : toks[k].type = "math" /\ toks[k].id = id]

(***************************************************************************)
(* re = /MATHPH(.+?)PHMATH/g tried at position p: the positions at which   *)
(* the closing PHMATH may start.  The id is lazy and holds at least one    *)
(* character, none of them a line terminator.                              *)
(***************************************************************************)
PlaceholderCloses(text, p) ==
    IF StartsWith(text, MATHPH, p)
    THEN {q \in (p + 7)..Len(text) :
            /\ StartsWith(text, PHMATH, q)
            /\ \A k \in (p + 6)..(q - 1) : text[k] # "\n"}
    ELSE {}

(* splitInlineByMath: the loop from position p, with `last` as the code has
   it (1-based), then the trailing slice. *)
RECURSIVE SplitFrom(_, _, _, _)
SplitFrom(text, p, last, toks) ==
    IF p > Len(text)
    THEN IF last <= Len(text) THEN <<[str |-> SubSeq(text, last, Len(text))]>> ELSE <<>>
    ELSE IF PlaceholderCloses(text, p) = {}
    THEN SplitFrom(text, p + 1, last, toks)
    ELSE LET q  == Min(PlaceholderCloses(text, p))
             id == SubSeq(text, p + 6, q - 1)
         IN  (IF p > last THEN <<[str |-> SubSeq(text, last, p - 1)]>> ELSE <<>>)
             \o (IF MathMapHas(toks, id) THEN <<MathMapGet(toks, id)>> ELSE <<>>)
             \o SplitFrom(text, q + 6, q + 6, toks)

splitInlineByMath(text, toks) == SplitFrom(text, 1, 1, toks)

(***************************************************************************)
(* emitStyledRuns: the while loop from position i, with buf, bold and      *)
(* italics as the code has them.                                           *)
(***************************************************************************)
TextRun(text, bold, italics) ==
    [type |-> "text", text |-> text, bold |-> bold, italics |-> italics]

Flush(buf, bold, italics) ==
    IF buf # <<>> THEN <<TextRun(buf, bold, italics)>> ELSE <<>>

RECURSIVE EmitLoop(_, _, _, _, _)
EmitLoop(text, i, buf, bold, italics) ==
    IF i > Len(text) THEN Flush(buf, bold, italics)
    ELSE IF StartsWith(text, <<"*", "*">>, i)
    THEN Flush(buf, bold, italics) \o EmitLoop(text, i + 2, <<>>, ~bold, italics)
    ELSE IF text[i] = "*"
    THEN Flush(buf, bold, italics) \o EmitLoop(text, i + 1, <<>>, bold, ~italics)
    ELSE EmitLoop(text, i + 1, Append(buf, text[i]), bold, italics)

emitStyledRuns(text, init) == EmitLoop(text, 1, <<>>, init.bold, init.italics)

(***************************************************************************)
(* isOmmlPlain: no opening tag <m:...> other than oMath, r, t and rPr.     *)
(* extractTextFromOmml: the text of every <m:t> element.                   *)
(***************************************************************************)
OmmlOpeningTags == {"<m:oMath>", "<m:r>", "<m:t>", "<m:rPr>", "<m:sSup>"}

isOmmlPlain(xml) ==
    \A k \in 1..Len(xml) :
        xml[k] \in OmmlOpeningTags => xml[k] \in {"<m:oMath>", "<m:r>", "<m:t>", "<m:rPr>"}

RECURSIVE ExtractFrom(_, _, _)
ExtractFrom(xml, k, inside) ==
    IF k > Len(xml) THEN <<>>
    ELSE IF xml[k] = "<m:t>" THEN ExtractFrom(xml, k + 1, TRUE)
    ELSE IF xml[k] = "</m:t>" THEN ExtractFrom(xml, k + 1, FALSE)
    ELSE (IF inside THEN <<xml[k]>> ELSE <<>>) \o ExtractFrom(xml, k + 1, inside)

extractTextFromOmml(xml) == ExtractFrom(xml, 1, FALSE)

(* The runs of one part of splitInlineByMath: a slice of text (a string,
   here [str |-> text]) or a math token. *)
PartRuns(part, style) ==
    IF "str" \in DOMAIN part
    THEN IF part.str # <<>> THEN emitStyledRuns(part.str, style) ELSE <<>>
    ELSE IF isOmmlPlain(part.omml)
    THEN IF extractTextFromOmml(part.omml) # <<>>
         THEN emitStyledRuns(extractTextFromOmml(part.omml), style)
         ELSE <<>>
    ELSE <<[type |-> "math", omml |-> part.omml]>>

RECURSIVE PartsRuns(_, _)
PartsRuns(parts, style) ==
    IF parts = <<>> THEN <<>>
    ELSE PartRuns(Head(parts), style) \o PartsRuns(Tail(parts), style)

(***************************************************************************)
(* inlineTokensToRuns.  A text token is lexed again (inlineTokensFromText  *)
(* is Lexer.lexInline); one text node goes through splitInlineByMath, any  *)
(* other result is expanded as inline tokens.  The marked of this model    *)
(* gives text, strong and em tokens only.                                  *)
(***************************************************************************)
RECURSIVE inlineTokensToRuns(_, _, _)
inlineTokensToRuns(inline, style, toks) ==
    IF inline = <<>> THEN <<>>
    ELSE LET it == Head(inline)
         IN  (CASE it.type = "text" ->
                     LET sub == lexInline(it.text)
                     IN  IF Len(sub) = 1 /\ sub[1].type = "text"
                         THEN PartsRuns(splitInlineByMath(sub[1].text, toks), style)
                         ELSE inlineTokensToRuns(sub, style, toks)
                [] it.type = "strong" ->
                     inlineTokensToRuns(it.tokens, [style EXCEPT !.bold = TRUE], toks)
                [] it.type = "em" ->
                     inlineTokensToRuns(it.tokens, [style EXCEPT !.italics = TRUE], toks)
                [] OTHER -> <<>>)
             \o inlineTokensToRuns(Tail(inline), style, toks)

NoStyle == [bold |-> FALSE, italics |-> FALSE]

(***************************************************************************)
(* listParas: one Paragraph per item, from the item's text, then the items *)
(* of the first list among the item's tokens.                              *)
(***************************************************************************)
NumberingReference(ordered) == IF ordered THEN "numbered-list" ELSE "bullet-list"

RECURSIVE listParas(_, _, _)
listParas(items, ordered, toks) ==
    IF items = <<>> THEN <<>>
    ELSE LET li   == Head(items)
             subs == {k \in 1..Len(li.tokens) : li.tokens[k].type = "list"}
         IN  << [type      |-> "paragraph",
                 children  |-> inlineTokensToRuns(lexInline(li.text), NoStyle, toks),
                 numbering |-> [reference |-> NumberingReference(ordered),
                                level     |-> 0]] >>
             \o (IF subs # {}
                 THEN listParas(li.tokens[Min(subs)].items,
                                li.tokens[Min(subs)].ordered, toks)
                 ELSE <<>>)
             \o listParas(Tail(items), ordered, toks)

(* The switch over the block tokens: a paragraph gives one Paragraph, a
   list the Paragraphs of listParas, a space token nothing. *)
BlockParagraphs(tk, toks) ==
    IF tk.type = "paragraph"
    THEN << [type |-> "paragraph",
             children |-> inlineTokensToRuns(
                 IF tk.tokens # <<>> THEN tk.tokens ELSE lexInline(tk.text),
                 NoStyle, toks)] >>
    ELSE IF tk.type = "list" THEN listParas(tk.items, tk.ordered, toks)
    ELSE <<>>

generateDocx(toks) ==
    LET mdTokens == markedLexer(Combined(toks))
    IN  Flatten([k \in 1..Len(mdTokens) |-> BlockParagraphs(mdTokens[k], toks)])

(***************************************************************************)
(* copyWordHtmlToClipboard.  clipEnv says what the browser offers:         *)
(*   hasClipboardKey    "clipboard" in navigator                           *)
(*   clipboardObject    navigator.clipboard is an object                   *)
(*   hasWriteKey        "write" in navigator.clipboard                     *)
(*   hasClipboardItem   ClipboardItem is defined                           *)
(*   writeResolves      the promise of clipboard.write resolves            *)
(*   hasWriteText       navigator.clipboard.writeText is a function        *)
(*   writeTextResolves  the promise of clipboard.writeText resolves        *)
(* clip.tried lists the writes in the order the function reaches them      *)
(* ("rich": the call of clipboard.write; "plain": the second try block,    *)
(* whose only statement is the call of writeText).                         *)
(***************************************************************************)
ClipEnvs ==
    {e \in [hasClipboardKey : BOOLEAN, clipboardObject : BOOLEAN, hasWriteKey : BOOLEAN,
            hasClipboardItem : BOOLEAN, writeResolves : BOOLEAN,
            hasWriteText : BOOLEAN, writeTextResolves : BOOLEAN] :
        /\ e.clipboardObject => e.hasClipboardKey
        /\ e.hasWriteKey => e.clipboardObject
        /\ e.hasWriteText => e.clipboardObject}

NoClipboard ==
    [hasClipboardKey |-> FALSE, clipboardObject |-> FALSE, hasWriteKey |-> FALSE,
     hasClipboardItem |-> FALSE, writeResolves |-> FALSE,
     hasWriteText |-> FALSE, writeTextResolves |-> FALSE]

NotCopied ==
    [tried |-> <<>>, rich |-> "none", plain |-> "none", result |-> "none",
     logged |-> FALSE, clipboard |-> <<>>]

(* The first try block up to its await: the condition is false ("skip"),
   its evaluation or the ClipboardItem constructor throws ("throw"), or
   clipboard.write is called ("await"). *)
FirstTry(e) ==
    IF ~e.hasClipboardKey THEN "skip"
    ELSE IF ~e.clipboardObject THEN "throw"
    ELSE IF ~e.hasWriteKey THEN "skip"
    ELSE IF ~e.hasClipboardItem THEN "throw"
    ELSE "await"

(* catch (e) {} : the function goes on with the second try block. *)
AfterFirstCatch_Rethrow == "thrown"

AfterFirstCatch == "secondTry"

(* catch (e) { console.error(..); return false; } *)
AfterSecondCatch == "false"

(***************************************************************************)
(* Input texts: concatenations of a few fragments that hold every          *)
(* character the patterns of the code distinguish.                         *)
(***************************************************************************)
HatA == <<"\\", "h", "a", "t", "{", "a", "}">>

SegFrags == { <<"$">>, <<"$", "$">>, <<"a">>, <<"\n">>, HatA }

SegInputs(n) == {Flatten(fs) : fs \in SeqsUpTo(SegFrags, n)}

NormFrags ==
    { <<"\\", "h", "a", "t">>, <<"\\", "b", "a", "r">>,
      <<"{">>, <<"}">>, <<" ">>, <<"{", "x", "}">>, <<"{", "h", "}">> }

NormInputs(n) == {Flatten(fs) : fs \in SeqsUpTo(NormFrags, n)}

PH0 == mathPlaceholder(MathId(0))
PH1 == mathPlaceholder(MathId(1))

WeaveFrags == { <<"$">>, <<"$", "$">>, <<"a">>, <<" ">>, PH0, PH1 }

WeaveInputs(n) ==
    {t \in {Flatten(fs) : fs \in SeqsUpTo(WeaveFrags, n)} :
        MarkedSupported(Combined(tokenizeAndConvert(t)))}

DocxFrags ==
    { <<"a">>, <<" ">>, <<"*", "*">>, <<"*">>, <<"$", "x", "$">>,
      <<"$", "x", "^", "y", "$">>, <<"$", "$", "x", "^", "y", "$", "$">> }

DocxInputs(n) ==
    {t \in {Flatten(fs) : fs \in SeqsUpTo(DocxFrags, n)} :
        MarkedSupported(Combined(tokenizeAndConvert(t)))}

(* List texts: up to n list lines, each an indentation, a marker and a
   text. *)
ListLineFrags ==
    {[k \in 1..i |-> " "] \o m \o t :
        i \in {0, 2, 3, 4, 5},
        m \in {<<"-", " ">>, <<"1", ".", " ">>},
        t \in {<<"a">>, <<"$", "x", "^", "y", "$">>}}

RECURSIVE JoinLines(_)
JoinLines(ls) ==
    IF Len(ls) = 1 THEN ls[1] ELSE ls[1] \o <<"\n">> \o JoinLines(Tail(ls))

ListInputs(n) ==
    {t \in {JoinLines(ls) : ls \in SeqsUpTo(ListLineFrags, n) \ {<<>>}} :
        ListSupported(Combined(tokenizeAndConvert(t)))}

ClipInputs == { <<>>, <<"$", "x", "$">>, <<"a", "$", "$", "x", "^", "y", "$", "$">> }

(***************************************************************************)
(* Spec: one conversion run of the segmenter (tokenizeAndConvert).         *)
(***************************************************************************)
Idle ==
    /\ pc = "ready"
    /\ normOnce = <<>>
    /\ normTwice = <<>>
    /\ tokens = <<>>
    /\ previewHtml = <<>>
    /\ wordHtml = <<>>
    /\ paragraphs = <<>>
    /\ clip = NotCopied

Init ==
    /\ clipEnv = NoClipboard
    /\ input \in SegInputs(MaxSegFrags)
    /\ Idle

Convert ==
    /\ pc = "ready"
    /\ tokens' = tokenizeAndConvert(input)
    /\ pc' = "converted"
    /\ UNCHANGED <<input, normOnce, normTwice, previewHtml, wordHtml, paragraphs, clipEnv, clip>>

Next == Convert

Spec == Init /\ [][Next]_vars

(***************************************************************************)
(* SpecNorm: the accent normaliser applied once, then to its own output.   *)
(***************************************************************************)
InitNorm ==
    /\ clipEnv = NoClipboard
    /\ input \in NormInputs(MaxNormFrags)
    /\ Idle

NormalizeOnce ==
    /\ pc = "ready"
    /\ normOnce' = normalizeAccentsToUnicode(input)
    /\ pc' = "once"
    /\ UNCHANGED <<input, normTwice, tokens, previewHtml, wordHtml, paragraphs, clipEnv, clip>>

NormalizeTwice ==
    /\ pc = "once"
    /\ normTwice' = normalizeAccentsToUnicode(normOnce)
    /\ pc' = "twice"
    /\ UNCHANGED <<input, normOnce, tokens, previewHtml, wordHtml, paragraphs, clipEnv, clip>>

NextNorm == NormalizeOnce \/ NormalizeTwice

SpecNorm == InitNorm /\ [][NextNorm]_vars

(***************************************************************************)
(* SpecWeave: convertText, the handler of the Convert button: the tokens   *)
(* and the two HTML outputs woven from them.                               *)
(***************************************************************************)
InitWeave ==
    /\ clipEnv = NoClipboard
    /\ input \in WeaveInputs(MaxWeaveFrags)
    /\ Idle

ConvertText ==
    /\ pc = "ready"
    /\ LET toks == tokenizeAndConvert(input)
       IN  /\ tokens' = toks
           /\ previewHtml' = buildPreviewHtmlFromTokens(toks)
           /\ wordHtml' = buildWordHtmlFromTokens(toks)
    /\ pc' = "woven"
    /\ UNCHANGED <<input, normOnce, normTwice, paragraphs, clipEnv, clip>>

NextWeave == ConvertText

SpecWeave == InitWeave /\ [][NextWeave]_vars

(***************************************************************************)
(* SpecDocx: the Convert button, then the Download button (generateDocx    *)
(* over the tokens of the conversion).                                     *)
(***************************************************************************)
InitDocx ==
    /\ clipEnv = NoClipboard
    /\ input \in DocxInputs(MaxDocxFrags)
    /\ Idle

GenerateDocx ==
    /\ pc = "woven"
    /\ paragraphs' = generateDocx(tokens)
    /\ pc' = "built"
    /\ UNCHANGED <<input, normOnce, normTwice, tokens, previewHtml, wordHtml, clipEnv, clip>>

NextDocx == ConvertText \/ GenerateDocx

SpecDocx == InitDocx /\ [][NextDocx]_vars

(***************************************************************************)
(* SpecList: the Convert button, then the Download button, on list texts.  *)
(***************************************************************************)
InitList ==
    /\ clipEnv = NoClipboard
    /\ input \in ListInputs(MaxListLines)
    /\ Idle

NextList == ConvertText \/ GenerateDocx

SpecList == InitList /\ [][NextList]_vars

(***************************************************************************)
(* SpecClip: the Convert button, then the Copy button:                     *)
(* copyWordHtmlToClipboard(html) with the Word HTML of the conversion, one *)
(* action per stretch of the async function between two awaits.            *)
(***************************************************************************)
InitClip ==
    /\ clipEnv \in ClipEnvs
    /\ input \in ClipInputs
    /\ Idle

CopyBegin ==
    /\ pc = "woven"
    /\ IF FirstTry(clipEnv) = "await"
       THEN /\ clip' = [clip EXCEPT !.tried = Append(@, "rich")]
            /\ pc' = "awaitWrite"
       ELSE /\ clip' = [clip EXCEPT !.rich = "unavailable"]
            /\ pc' = IF FirstTry(clipEnv) = "throw" THEN AfterFirstCatch ELSE "secondTry"
    /\ UNCHANGED <<input, normOnce, normTwice, tokens, previewHtml, wordHtml,
                   paragraphs, clipEnv>>

WriteSettles ==
    /\ pc = "awaitWrite"
    /\ IF clipEnv.writeResolves
       THEN /\ clip' = [clip EXCEPT !.rich = "ok", !.result = "true",
                                    !.clipboard = <<"text/html">> \o wordHtml]
            /\ pc' = "returned"
       ELSE /\ clip' = [clip EXCEPT !.rich = "failed"]
            /\ pc' = AfterFirstCatch
    /\ UNCHANGED <<input, normOnce, normTwice, tokens, previewHtml, wordHtml,
                   paragraphs, clipEnv>>

SecondTry ==
    /\ pc = "secondTry"
    /\ IF clipEnv.clipboardObject /\ clipEnv.hasWriteText
       THEN /\ clip' = [clip EXCEPT !.tried = Append(@, "plain")]
            /\ pc' = "awaitWriteText"
       ELSE /\ clip' = [clip EXCEPT !.tried = Append(@, "plain"), !.plain = "failed",
                                    !.logged = TRUE, !.result = AfterSecondCatch]
            /\ pc' = "returned"
    /\ UNCHANGED <<input, normOnce, normTwice, tokens, previewHtml, wordHtml,
                   paragraphs, clipEnv>>

WriteTextSettles ==
    /\ pc = "awaitWriteText"
    /\ IF clipEnv.writeTextResolves
       THEN clip' = [clip EXCEPT !.plain = "ok", !.result = "true",
                                 !.clipboard = <<"text/plain">> \o wordHtml]
       ELSE clip' = [clip EXCEPT !.plain = "failed", !.logged = TRUE,
                                 !.result = AfterSecondCatch]
    /\ pc' = "returned"
    /\ UNCHANGED <<input, normOnce, normTwice, tokens, previewHtml, wordHtml,
                   paragraphs, clipEnv>>

NextClip == ConvertText \/ CopyBegin \/ WriteSettles \/ SecondTry \/ WriteTextSettles

SpecClip == InitClip /\ [][NextClip]_vars

(***************************************************************************)
(*                              CLAIMS                                     *)
(***************************************************************************)
Normalized == normalizeAccentsToUnicode(input)

Chars(text) == {text[k] : k \in 1..Len(text)}

(* The span of the normalised text a token stands for. *)
OriginalSpan(t) ==
    IF t.type = "text" THEN t.text
    ELSE IF t.displayMode THEN <<"$", "$">> \o t.latex \o <<"$", "$">>
    ELSE <<"$">> \o t.latex \o <<"$">>

RECURSIVE SpanLengths(_, _)
SpanLengths(toks, k) ==
    IF k = 0 THEN 0 ELSE SpanLengths(toks, k - 1) + Len(OriginalSpan(toks[k]))

(* First and last position, in the normalised text, of the k-th token. *)
TokenStart(k) == 1 + SpanLengths(tokens, k - 1)
TokenEnd(k) == SpanLengths(tokens, k)

IsMath(k) == tokens[k].type = "math"
IsText(k) == tokens[k].type = "text"

(* Position p lies inside a math span that the scan matched from an earlier
   position. *)
ConsumedEarlier(p) ==
    \E k \in 1..Len(tokens) : IsMath(k) /\ TokenStart(k) < p /\ p <= TokenEnd(k)

InTextToken(p) ==
    \E k \in 1..Len(tokens) : IsText(k) /\ TokenStart(k) <= p /\ p <= TokenEnd(k)

(* C1: the tokens of tokenizeAndConvert, each replaced by the span it stands
   for (a text token's text, a math token's latex between its delimiters),
   concatenate to the accent-normalised input. *)
C1_TokensCoverNormalizedInput ==
    pc = "converted" =>
        Flatten([k \in 1..Len(tokens) |-> OriginalSpan(tokens[k])]) = Normalized

C1_Witness ==
    /\ pc = "converted"
    /\ Normalized # input
    /\ \E k \in 1..Len(tokens) : IsMath(k) /\ tokens[k].displayMode
    /\ IsText(Len(tokens))

(* A block span $$X$$ of the text: opening '$$' at p, closing '$$' at q, X
   non-empty and without '$$'. *)
BlockSpanAt(text, p, q) ==
    /\ IsDollar(text, p) /\ IsDollar(text, p + 1)
    /\ q >= p + 3
    /\ IsDollar(text, q) /\ IsDollar(text, q + 1)
    /\ ~Occurs(SubSeq(text, p + 2, q - 1), <<"$", "$">>)

BlockSpans(text) ==
    {pq \in (1..Len(text)) \X (1..Len(text)) : BlockSpanAt(text, pq[1], pq[2])}

(* C2, as stated: every block span $$X$$ of the text, whatever precedes it,
   gives a math token with displayMode = true and latex = X. *)
C2_Original ==
    pc = "converted" =>
        \A pq \in BlockSpans(Normalized) :
            \E k \in 1..Len(tokens) :
                /\ IsMath(k) /\ tokens[k].displayMode
                /\ tokens[k].latex = SubSeq(Normalized, pq[1] + 2, pq[2] - 1)

(* C2, amended: a block span $$X$$ whose opening '$$' does not lie inside a
   math span matched from an earlier position, and whose X does not end with
   '$', gives at that position a math token with displayMode = true and
   latex = X. *)
C2_BlockSpanYieldsDisplayToken ==
    pc = "converted" =>
        \A pq \in BlockSpans(Normalized) :
            (~ConsumedEarlier(pq[1]) /\ Normalized[pq[2] - 1] # "$") =>
                \E k \in 1..Len(tokens) :
                    /\ TokenStart(k) = pq[1]
                    /\ IsMath(k) /\ tokens[k].displayMode
                    /\ tokens[k].latex = SubSeq(Normalized, pq[1] + 2, pq[2] - 1)

C2_Witness ==
    /\ pc = "converted"
    /\ \E pq \in BlockSpans(Normalized) :
          /\ ~ConsumedEarlier(pq[1])
          /\ Normalized[pq[2] - 1] # "$"
          /\ pq[1] > 1
          /\ "$" \in Chars(SubSeq(Normalized, 1, pq[1] - 1))
          /\ "\n" \in Chars(SubSeq(Normalized, pq[1] + 2, pq[2] - 1))

(* C3, as stated: a '$' followed by a '$', at a position the scan has not
   consumed, starts a display math token when a closing '$$' follows, and
   otherwise both dollars stay in text tokens. *)
C3_DollarPairIsBlockDelimiterOnly ==
    pc = "converted" =>
        \A p \in 1..(Len(Normalized) - 1) :
            (IsDollar(Normalized, p) /\ IsDollar(Normalized, p + 1)
                /\ ~ConsumedEarlier(p)) =>
                IF BlockCloses(Normalized, p) # {}
                THEN \E k \in 1..Len(tokens) :
                        TokenStart(k) = p /\ IsMath(k) /\ tokens[k].displayMode
                ELSE InTextToken(p) /\ InTextToken(p + 1)

(* C10, as stated: a text without '$', the empty text included, gives exactly
   one text token, whose text is the normalised input. *)
C10_Original ==
    (pc = "converted" /\ "$" \notin Chars(input)) =>
        /\ Len(tokens) = 1
        /\ IsText(1)
        /\ tokens[1].text = Normalized

(* C10, amended: a non-empty text without '$' gives exactly one text token,
   whose text is the normalised input; the empty text gives no token. *)
C10_NoDollarGivesOneTextToken ==
    (pc = "converted" /\ "$" \notin Chars(input)) =>
        IF input = <<>>
        THEN tokens = <<>>
        ELSE /\ Len(tokens) = 1
             /\ IsText(1)
             /\ tokens[1].text = Normalized

C10_Witness ==
    /\ pc = "converted"
    /\ "$" \notin Chars(input)
    /\ Normalized # input
    /\ "\n" \in Chars(input)
    /\ Len(tokens) = 1

(* C9: normalising the output of the accent normaliser changes nothing. *)
C9_NormalizeIdempotent ==
    pc = "twice" => normTwice = normOnce

C9_Witness ==
    /\ pc = "twice"
    /\ normOnce # input
    /\ "\\" \in Chars(normOnce)
    /\ "U+0304" \in Chars(normOnce)

MathTokens == {k \in 1..Len(tokens) : IsMath(k)}

(* C4, as stated: after the replacement loop, neither HTML output holds the
   placeholder of any math token of the sequence. *)
C4_NoPlaceholderLeft ==
    pc = "woven" =>
        \A k \in MathTokens :
            /\ ~Occurs(previewHtml, mathPlaceholder(tokens[k].id))
            /\ ~Occurs(wordHtml, mathPlaceholder(tokens[k].id))

(* Where the combined text holds the placeholder that was inserted for the
   k-th token. *)
RECURSIVE PieceLengths(_, _)
PieceLengths(toks, k) ==
    IF k = 0 THEN 0 ELSE PieceLengths(toks, k - 1) + Len(CombinedPiece(toks[k]))

InsertedAt(k) ==
    PieceLengths(tokens, k - 1) + (IF tokens[k].displayMode THEN 3 ELSE 1)

(* C5, as stated: every occurrence, in the combined text, of the placeholder
   of a math token is the one that was inserted for that token. *)
C5_PlaceholdersUnambiguous ==
    pc = "woven" =>
        \A k \in MathTokens :
            \A p \in 1..Len(Combined(tokens)) :
                StartsWith(Combined(tokens), mathPlaceholder(tokens[k].id), p)
                    => p = InsertedAt(k)

(* The document builder with the bold/italic state carried from one slice
   of a text node to the next, across the placeholders between them. *)
RECURSIVE StyleAfter(_, _, _)
StyleAfter(text, i, style) ==
    IF i > Len(text) THEN style
    ELSE IF StartsWith(text, <<"*", "*">>, i)
    THEN StyleAfter(text, i + 2, [style EXCEPT !.bold = ~@])
    ELSE IF text[i] = "*"
    THEN StyleAfter(text, i + 1, [style EXCEPT !.italics = ~@])
    ELSE StyleAfter(text, i + 1, style)

RECURSIVE CarriedPartsRuns(_, _)
CarriedPartsRuns(parts, style) ==
    IF parts = <<>> THEN <<>>
    ELSE PartRuns(Head(parts), style)
         \o CarriedPartsRuns(Tail(parts),
                IF "str" \in DOMAIN Head(parts)
                THEN StyleAfter(Head(parts).str, 1, style)
                ELSE style)

RECURSIVE CarriedRuns(_, _, _)
CarriedRuns(inline, style, toks) ==
    IF inline = <<>> THEN <<>>
    ELSE LET it == Head(inline)
         IN  (CASE it.type = "text" ->
                     LET sub == lexInline(it.text)
                     IN  IF Len(sub) = 1 /\ sub[1].type = "text"
                         THEN CarriedPartsRuns(splitInlineByMath(sub[1].text, toks), style)
                         ELSE CarriedRuns(sub, style, toks)
                [] it.type = "strong" ->
                     CarriedRuns(it.tokens, [style EXCEPT !.bold = TRUE], toks)
                [] it.type = "em" ->
                     CarriedRuns(it.tokens, [style EXCEPT !.italics = TRUE], toks)
                [] OTHER -> <<>>)
             \o CarriedRuns(Tail(inline), style, toks)

CarriedParagraphs(toks) ==
    LET mdTokens  == markedLexer(Combined(toks))
        paras     == {k \in 1..Len(mdTokens) : mdTokens[k].type = "paragraph"}
        Para(k)   == << [type |-> "paragraph",
                         children |-> CarriedRuns(mdTokens[k].tokens, NoStyle, toks)] >>
    IN  Flatten([k \in 1..Len(mdTokens) |-> IF k \in paras THEN Para(k) ELSE <<>>])

(* C6, as stated: the runs of every paragraph carry the bold and italic
   flags that are open where their text stands, a flag opened before a math
   placeholder (by a strong/em node or by a literal '**'/'*') staying open
   for the formula and for the text after it. *)
C6_StyleCarriedAcrossMath ==
    pc = "built" => paragraphs = CarriedParagraphs(tokens)

(* Letters and spaces, the first letter after three spaces at most. *)
PlainProse(text) ==
    /\ \A k \in 1..Len(text) : text[k] \in AsciiLetters \cup {" "}
    /\ \E k \in 1..Min({4, Len(text)}) : text[k] \in AsciiLetters

(* input = <text> $$X$$ <text> on one line, with plain prose on both sides
   and a formula X whose Office markup has structure. *)
IsTextBlockText(text, i, j) ==
    /\ i + 2 < j
    /\ StartsWith(text, <<"$", "$">>, i)
    /\ StartsWith(text, <<"$", "$">>, j)
    /\ Len(text) > j + 1
    /\ PlainProse(SubSeq(text, 1, i - 1))
    /\ PlainProse(SubSeq(text, j + 2, Len(text)))
    /\ \A k \in (i + 2)..(j - 1) : text[k] \notin {"$", "\n", "*", " "}
    /\ ~isOmmlPlain(convertLatexToken(SubSeq(text, i + 2, j - 1), TRUE).omml)

TextBlockText ==
    \E i, j \in 1..Len(input) : IsTextBlockText(input, i, j)

ThreeTokens ==
    /\ Len(tokens) = 3
    /\ IsText(1)
    /\ IsMath(2) /\ tokens[2].displayMode
    /\ IsText(3)
    /\ input = tokens[1].text \o <<"$", "$">> \o tokens[2].latex \o <<"$", "$">>
                   \o tokens[3].text

RunTypes(para) == [k \in 1..Len(para.children) |-> para.children[k].type]

C8_ClipboardFallback ==
    /\ pc # "thrown"
    /\ pc = "returned" =>
          /\ clip.result \in {"true", "false"}
          /\ clip.tried \in {<<"rich">>, <<"rich", "plain">>, <<"plain">>}
          /\ clip.rich \in {"ok", "failed"} <=> FirstTry(clipEnv) = "await"
          /\ "plain" \in Chars(clip.tried) <=> clip.rich # "ok"
          /\ clip.result = "true" <=> (clip.rich = "ok" \/ clip.plain = "ok")
          /\ clip.result = "false" <=> (clip.rich # "ok" /\ clip.plain = "failed")
          /\ clip.logged <=> clip.result = "false"

C8_Witness ==
    /\ pc = "returned"
    /\ clip.tried = <<"rich", "plain">>
    /\ clip.rich = "failed"
    /\ clip.plain = "ok"
    /\ clip.result = "true"

(* The items of the list tokens, in document order, each with the depth of
   its nesting and the ordered flag of its own list. *)
RECURSIVE ItemsInOrder(_, _)
RECURSIVE ItemsOfList(_, _, _)
ItemsOfList(items, ordered, depth) ==
    IF items = <<>> THEN <<>>
    ELSE <<[ordered |-> ordered, depth |-> depth]>>
         \o ItemsInOrder(Tail(Head(items).tokens), depth + 1)
         \o ItemsOfList(Tail(items), ordered, depth)

ItemsInOrder(lists, depth) ==
    IF lists = <<>> THEN <<>>
    ELSE ItemsOfList(Head(lists).items, Head(lists).ordered, depth)
         \o ItemsInOrder(Tail(lists), depth)

ListItemsOfInput == ItemsInOrder(markedLexer(Combined(tokens)), 0)

(* C11, as stated: every list item gives one paragraph, in document order,
   whose numbering level is the depth of the item's nesting (0 at the top,
   one more for each enclosing list) and whose numbering reference follows
   the ordered flag of the item's own list. *)
C11_ListLevelIsNestingDepth ==
    pc = "built" =>
        /\ Len(paragraphs) = Len(ListItemsOfInput)
        /\ \A k \in 1..Len(paragraphs) :
              /\ paragraphs[k].numbering.level = ListItemsOfInput[k].depth
              /\ paragraphs[k].numbering.reference
                    = NumberingReference(ListItemsOfInput[k].ordered)
====
